---- MODULE Spec2Model ----
(***************************************************************************)
(* Model of the validation and scoring engine of quiz-validator            *)
(* (validateField, validateQuizQuestion, validateQuizSet), translated from *)
(* the library                                                             *)
(* source kept in src/src/cli/commands/__tests__/validate.test.ts          *)
(* (lines 94-463), of the Quizlet importer (src/src/cli/importers/         *)
(* quizlet.ts) and of the validate and batch commands                      *)
(* (src/src/cli/commands/validate.ts, src/unnamed/part_004).               *)
(*                                                                         *)
(* JavaScript values are records [t, s, n]: t is the typeof/identity tag,  *)
(* s the characters of a string, n the number (or 0/1 of a boolean, or the *)
(* length of an array).  An optional property of a rule or of the options  *)
(* object is a set with no element (the property is undefined) or with one *)
(* element (its value).  "ValidationError | null" is a sequence of at most *)
(* one error record, so that `if (e) errors.push(e)` is concatenation.     *)
(***************************************************************************)
EXTENDS Integers, Sequences, FiniteSets, TLC

VARIABLES
    value,        \* validateField: the value argument
    rule,         \* validateField: the rule object (its RegExp carries lastIndex)
    ruleArg,      \* validateField: the rule as it was when the last call was made
    fieldResult,  \* validateField: the last return value (<<>> is null)
    consulted,    \* validateField: the last call invoked rule.customValidator
    fieldCalls,   \* validateField: number of calls made on (value, rule)
    question,     \* validateQuizQuestion: the question argument
    options,      \* validateQuizQuestion: the options object (customRules hold RegExps)
    optionsArg,   \* validateQuizQuestion: the options as they were when the last call was made
    result,       \* validateQuizQuestion: the last ValidationResult
    totalChecks,  \* validateQuizQuestion: the local totalChecks of the last call
    quizCalls,    \* validateQuizQuestion: number of calls made on (question, options)
    questions,    \* validateQuizSet: the questions argument
    setOptions,   \* validateQuizSet: the options object (customRules hold RegExps)
    setOptionsArg, \* validateQuizSet: the options as they were when the last call was made
    setResult,    \* validateQuizSet: the last return value
    setCalls,     \* validateQuizSet: number of calls made on (questions, options)
    content,      \* convertFromQuizlet: the content argument, a sequence of characters
    imported,     \* convertFromQuizlet: the last return value
    importCalls,  \* convertFromQuizlet: number of calls made on content
    command,      \* the CLI: the command the process was started with
    files,        \* the CLI: the file named (validate) or the JSON files found (batch)
    cliOptions,   \* the CLI: the command's options, and whether its directory and output can be used
    exitStatus    \* the CLI: the exit status of the process, NotExited while it runs

vars == <<value, rule, ruleArg, fieldResult, consulted, fieldCalls,
          question, options, optionsArg, result, totalChecks, quizCalls,
          questions, setOptions, setOptionsArg, setResult, setCalls,
          content, imported, importCalls,
          command, files, cliOptions, exitStatus>>

fieldVars == <<value, rule, ruleArg, fieldResult, consulted, fieldCalls>>
quizVars == <<question, options, optionsArg, result, totalChecks, quizCalls>>
setVars == <<questions, setOptions, setOptionsArg, setResult, setCalls>>
importVars == <<content, imported, importCalls>>
cliVars == <<command, files, cliOptions, exitStatus>>

----------------------------------------------------------------------------
(* Bounds of the model *)

\* longest string a^n drawn as an input of validateField
MaxStrLen == 3
\* number of successive calls made with the same arguments
MaxCalls == 2
\* longest sequence of questions drawn as an input of validateQuizSet
MaxQuestions == 2
\* longest content drawn as an input of convertFromQuizlet, in characters
MaxContentLen == 7
\* largest number of JSON files the batch command finds
MaxFiles == 2
\* length of the long options list drawn as an input of validateQuizQuestion
ManyOptions == 197

----------------------------------------------------------------------------
(* JavaScript values *)

Undefined == [t |-> "undefined", s |-> <<>>, n |-> 0]
Null == [t |-> "null", s |-> <<>>, n |-> 0]
Str(chars) == [t |-> "string", s |-> chars, n |-> 0]
Num(k) == [t |-> "number", s |-> <<>>, n |-> k]
Bool(b) == [t |-> "boolean", s |-> <<>>, n |-> IF b THEN 1 ELSE 0]
\* an array of k non-empty, non-numeric strings
Arr(k) == [t |-> "array", s |-> <<>>, n |-> k]

\* 'a'.repeat(k)
Rep(k) == [i \in 1..k |-> "a"]

\* value === undefined || value === null || value === ''
IsAbsent(v) == v = Undefined \/ v = Null \/ v = Str(<<>>)

\* the truthiness of a value in a condition
Truthy(v) ==
    CASE v.t \in {"undefined", "null"} -> FALSE
      [] v.t = "string" -> Len(v.s) > 0
      [] v.t \in {"number", "boolean"} -> v.n # 0
      [] v.t = "array" -> TRUE

\* typeof value === 'string'
IsString(v) == v.t = "string"

\* ToNumber(value) of the JavaScript coercion used by `%` and `>=`:
\* [nan, n].  Strings of the model hold letters only, so a non-empty string
\* (and an array holding one, or several joined by commas) is NaN.
ToNumber(v) ==
    CASE v.t = "number" -> [nan |-> FALSE, n |-> v.n]
      [] v.t = "boolean" -> [nan |-> FALSE, n |-> v.n]
      [] v.t = "null" -> [nan |-> FALSE, n |-> 0]
      [] v.t = "undefined" -> [nan |-> TRUE, n |-> 0]
      [] v.t = "string" -> [nan |-> Len(v.s) > 0, n |-> 0]
      [] v.t = "array" -> [nan |-> v.n > 0, n |-> 0]

\* the custom predicates of the test-suite, by name
\*   "even": (value) => value % 2 === 0
\*   "ge10": (value) => value >= 10
CustomValidators == {"even", "ge10"}

ApplyValidator(name, v) ==
    LET k == ToNumber(v)
    IN CASE name = "even" -> ~k.nan /\ k.n % 2 = 0
         [] name = "ge10" -> ~k.nan /\ k.n >= 10

----------------------------------------------------------------------------
(* RegExp objects: /b/ and /b/g, with the lastIndex a global one carries *)

RegExp(global) == [src |-> "b", global |-> global, lastIndex |-> 0]

\* index (1-based) of the first "b" of s after position start, 0 if none
FirstMatch(s, start) ==
    LET hits == {i \in (start + 1)..Len(s) : s[i] = "b"}
    IN IF hits = {} THEN 0 ELSE CHOOSE i \in hits : \A j \in hits : i <= j

\* RegExp.prototype.test: the search starts at lastIndex when the g flag is set
RegExpTest(re, s) ==
    FirstMatch(s, IF re.global THEN re.lastIndex ELSE 0) > 0

\* the RegExp object after test(s): a global one remembers the end of the
\* match, and is reset to 0 by a failed search
RegExpAfterTest(re, s) ==
    IF re.global
    THEN [re EXCEPT !.lastIndex = FirstMatch(s, re.lastIndex)]
    ELSE re

----------------------------------------------------------------------------
(* ValidationRule, ValidationError *)

\* a ValidationRule; every property but field is optional
Rule(field, required, minLength, maxLength, pattern, customValidator, errorMessage) ==
    [field |-> field, required |-> required, minLength |-> minLength,
     maxLength |-> maxLength, pattern |-> pattern,
     customValidator |-> customValidator, errorMessage |-> errorMessage]

\* the message templates of the library: text is the field the template names
\* (or the whole text of a literal message), a and b the numbers it embeds
Msg(kind, text, a, b) == [kind |-> kind, text |-> text, a |-> a, b |-> b]

\* rule.errorMessage || dflt: an empty errorMessage is falsy
ErrorMessage(r, dflt) ==
    IF \E m \in r.errorMessage : m # ""
    THEN Msg("literal", CHOOSE m \in r.errorMessage : TRUE, 0, 0)
    ELSE dflt

\* a ValidationError {field, message, value, rule}
Error(field, message, v, kind) ==
    [field |-> field, message |-> message, value |-> v, rule |-> kind]

----------------------------------------------------------------------------
(* validateField(value, rule), check by check, in the order of the code *)

\* variant with a fault: the required check forgets the empty string
RequiredFailsIgnoringEmptyString(v, r) ==
    TRUE \in r.required /\ v.t \in {"undefined", "null"}

\* rule.required && (value absent)
RequiredFails(v, r) == TRUE \in r.required /\ IsAbsent(v)

\* variant with a fault: the early return for an empty optional value is missing
SkipsEmptyNever(v, r) == FALSE

\* !rule.required && (value absent): every other check is skipped
SkipsEmpty(v, r) == ~(TRUE \in r.required) /\ IsAbsent(v)

\* variant with a fault: <= for <, a value of exactly minLength is refused
MinLengthFailsInclusive(v, r) == IsString(v) /\ \E m \in r.minLength : Len(v.s) <= m

\* typeof value === 'string' && rule.minLength !== undefined && value.length < rule.minLength
MinLengthFails(v, r) == IsString(v) /\ \E m \in r.minLength : Len(v.s) < m

\* variant with a fault: >= for >, a value of exactly maxLength is refused
MaxLengthFailsInclusive(v, r) == IsString(v) /\ \E m \in r.maxLength : Len(v.s) >= m

\* typeof value === 'string' && rule.maxLength !== undefined && value.length > rule.maxLength
MaxLengthFails(v, r) == IsString(v) /\ \E m \in r.maxLength : Len(v.s) > m

\* rule.pattern && typeof value === 'string': the pattern is tested
PatternApplies(v, r) == r.pattern # {} /\ IsString(v)
PatternFails(v, r) == IsString(v) /\ \E re \in r.pattern : ~RegExpTest(re, v.s)

\* variant with a fault: the custom validator is applied to strings only
CustomFailsOnStringsOnly(v, r) ==
    IsString(v) /\ \E c \in r.customValidator : ~ApplyValidator(c, v)

\* rule.customValidator && !rule.customValidator(value)
CustomFails(v, r) == \E c \in r.customValidator : ~ApplyValidator(c, v)

\* the call returns before the pattern check
ReturnsBeforePattern(v, r) ==
    RequiredFails(v, r) \/ SkipsEmpty(v, r) \/ MinLengthFails(v, r) \/ MaxLengthFails(v, r)

\* variant with a fault: the pattern check is made before the length checks
validateFieldPatternFirst(v, r) ==
    IF RequiredFails(v, r) THEN
        <<Error(r.field, ErrorMessage(r, Msg("required", r.field, 0, 0)), v, "required")>>
    ELSE IF SkipsEmpty(v, r) THEN <<>>
    ELSE IF PatternFails(v, r) THEN
        <<Error(r.field, ErrorMessage(r, Msg("pattern", r.field, 0, 0)), v, "pattern")>>
    ELSE IF MinLengthFails(v, r) THEN
        <<Error(r.field,
                ErrorMessage(r, Msg("minLength", r.field,
                                    CHOOSE m \in r.minLength : TRUE, Len(v.s))),
                v, "minLength")>>
    ELSE IF MaxLengthFails(v, r) THEN
        <<Error(r.field,
                ErrorMessage(r, Msg("maxLength", r.field,
                                    CHOOSE m \in r.maxLength : TRUE, Len(v.s))),
                v, "maxLength")>>
    ELSE IF CustomFails(v, r) THEN
        <<Error(r.field, ErrorMessage(r, Msg("custom", r.field, 0, 0)), v, "custom")>>
    ELSE <<>>

validateField(v, r) ==
    IF RequiredFails(v, r) THEN
        <<Error(r.field, ErrorMessage(r, Msg("required", r.field, 0, 0)), v, "required")>>
    ELSE IF SkipsEmpty(v, r) THEN <<>>
    ELSE IF MinLengthFails(v, r) THEN
        <<Error(r.field,
                ErrorMessage(r, Msg("minLength", r.field,
                                    CHOOSE m \in r.minLength : TRUE, Len(v.s))),
                v, "minLength")>>
    ELSE IF MaxLengthFails(v, r) THEN
        <<Error(r.field,
                ErrorMessage(r, Msg("maxLength", r.field,
                                    CHOOSE m \in r.maxLength : TRUE, Len(v.s))),
                v, "maxLength")>>
    ELSE IF PatternFails(v, r) THEN
        <<Error(r.field, ErrorMessage(r, Msg("pattern", r.field, 0, 0)), v, "pattern")>>
    ELSE IF CustomFails(v, r) THEN
        <<Error(r.field, ErrorMessage(r, Msg("custom", r.field, 0, 0)), v, "custom")>>
    ELSE <<>>

\* the call reaches rule.customValidator(value)
ConsultsCustom(v, r) ==
    /\ ~ReturnsBeforePattern(v, r)
    /\ ~PatternFails(v, r)
    /\ r.customValidator # {}

\* the rule object after the call: pattern.test(value) moves a global lastIndex
RuleAfter(v, r) ==
    IF ~ReturnsBeforePattern(v, r) /\ PatternApplies(v, r)
    THEN [r EXCEPT !.pattern = {RegExpAfterTest(re, v.s) : re \in r.pattern}]
    ELSE r

----------------------------------------------------------------------------
(* Inputs of validateField *)

\* strings: a^0 .. a^MaxStrLen, and three that hold a "b"
Strings == {Rep(k) : k \in 0..MaxStrLen} \cup {<<"b">>, <<"a", "b">>, <<"b", "a">>}

Values ==
    {Undefined, Null} \cup {Str(s) : s \in Strings}
    \cup {Num(0), Num(3), Num(4), Num(10)} \cup {Bool(TRUE), Bool(FALSE)}
    \cup {Arr(0), Arr(1)}

\* the empty set (the property is undefined) or one value of S
Optional(S) == {{}} \cup {{x} : x \in S}

Lengths == 0..(MaxStrLen + 1)

Rules ==
    {Rule("test", req, mn, mx, pat, cv, msg) :
        req \in Optional(BOOLEAN), mn \in Optional(Lengths), mx \in Optional(Lengths),
        pat \in Optional({RegExp(FALSE), RegExp(TRUE)}),
        cv \in Optional(CustomValidators),
        msg \in Optional({"", "Custom error message"})}

----------------------------------------------------------------------------
(* QuizQuestion, QuizValidationOptions *)

\* a QuizQuestion: options is optional (a set holding the array, or empty);
\* points is a field of the open [key: string]: any part
Question(id, text, opts, correctAnswer, explanation, category, difficulty, points) ==
    [id |-> id, question |-> text, options |-> opts, correctAnswer |-> correctAnswer,
     explanation |-> explanation, category |-> category, difficulty |-> difficulty,
     points |-> points]

\* question[rule.field]
FieldOf(q, f) ==
    CASE f = "id" -> q.id
      [] f = "question" -> q.question
      [] f = "options" ->
            IF q.options = {} THEN Undefined
            ELSE Arr(Len(CHOOSE os \in q.options : TRUE))
      [] f = "correctAnswer" -> q.correctAnswer
      [] f = "explanation" -> q.explanation
      [] f = "category" -> q.category
      [] f = "difficulty" -> q.difficulty
      [] f = "points" -> q.points
      [] OTHER -> Undefined

DEFAULT_OPTIONS ==
    [questionMinLength |-> 5, questionMaxLength |-> 500,
     optionMinLength |-> 1, optionMaxLength |-> 200,
     explanationMinLength |-> 10, explanationMaxLength |-> 1000,
     minOptions |-> 2, maxOptions |-> 10,
     requireExplanation |-> FALSE, requireCategory |-> FALSE,
     requireDifficulty |-> FALSE]

\* the value of an optional property, or dflt when it is not supplied
OrDefault(prop, dflt) == IF prop = {} THEN dflt ELSE CHOOSE x \in prop : TRUE

\* variant with a fault: a chain of fallbacks, minOptions falls back on
\* maxOptions when that one is supplied
MergeOptionsChained(o) ==
    [k \in DOMAIN DEFAULT_OPTIONS |->
        IF k = "minOptions" /\ o[k] = {} /\ o.maxOptions # {}
        THEN OrDefault(o.maxOptions, DEFAULT_OPTIONS[k])
        ELSE OrDefault(o[k], DEFAULT_OPTIONS[k])]

\* const opts = { ...DEFAULT_OPTIONS, ...options }
MergeOptions(o) ==
    [k \in DOMAIN DEFAULT_OPTIONS |-> OrDefault(o[k], DEFAULT_OPTIONS[k])]

\* options.customRules, or no rule when it is not supplied
CustomRulesOf(o) == OrDefault(o.customRules, <<>>)

\* the options array of the question, or the empty sequence without one
OptionsOf(q) == OrDefault(q.options, <<>>)

----------------------------------------------------------------------------
(* validateQuizQuestion(question, options), step by step *)

NoRule(field) == Rule(field, {}, {}, {}, {}, {}, {})

\* `options[${index}]`, index counted from 0
OptionField(index) == "options[" \o ToString(index) \o "]"

QuestionTextErrors(q, opts) ==
    validateField(q.question,
        [NoRule("question") EXCEPT !.required = {TRUE},
                                   !.minLength = {opts.questionMinLength},
                                   !.maxLength = {opts.questionMaxLength}])

MinOptionsErrors(q, opts) ==
    IF q.options # {} /\ Len(OptionsOf(q)) < opts.minOptions
    THEN <<Error("options",
                 Msg("minOptions", "options", opts.minOptions, Len(OptionsOf(q))),
                 Num(Len(OptionsOf(q))), "minOptions")>>
    ELSE <<>>

\* variant with a fault: >= for >, a list of exactly maxOptions is refused
MaxOptionsErrorsInclusive(q, opts) ==
    IF q.options # {} /\ Len(OptionsOf(q)) >= opts.maxOptions
    THEN <<Error("options",
                 Msg("maxOptions", "options", opts.maxOptions, Len(OptionsOf(q))),
                 Num(Len(OptionsOf(q))), "maxOptions")>>
    ELSE <<>>

MaxOptionsErrors(q, opts) ==
    IF q.options # {} /\ Len(OptionsOf(q)) > opts.maxOptions
    THEN <<Error("options",
                 Msg("maxOptions", "options", opts.maxOptions, Len(OptionsOf(q))),
                 Num(Len(OptionsOf(q))), "maxOptions")>>
    ELSE <<>>

\* variant with a fault: the label counts the options from 1
OptionErrorsOneBased(os, i, opts) ==
    validateField(os[i],
        [NoRule(OptionField(i)) EXCEPT !.required = {TRUE},
                                       !.minLength = {opts.optionMinLength},
                                       !.maxLength = {opts.optionMaxLength}])

\* validateField(option, {field: `options[${index}]`, required: true, ...})
OptionErrors(os, i, opts) ==
    validateField(os[i],
        [NoRule(OptionField(i - 1)) EXCEPT !.required = {TRUE},
                                           !.minLength = {opts.optionMinLength},
                                           !.maxLength = {opts.optionMaxLength}])

\* question.options.forEach((option, index) => ...): what the options at
\* positions lo..hi push, in index order (the range is halved so that a long
\* list does not nest the evaluation as deep as it is long)
RECURSIVE EachOptionErrors(_, _, _, _)
EachOptionErrors(os, lo, hi, opts) ==
    IF lo > hi THEN <<>>
    ELSE IF lo = hi THEN OptionErrors(os, lo, opts)
    ELSE LET mid == (lo + hi) \div 2
         IN EachOptionErrors(os, lo, mid, opts) \o EachOptionErrors(os, mid + 1, hi, opts)

\* variant with a fault: only neighbours are compared
HasDuplicatesAdjacent(os) == \E i \in 1..(Len(os) - 1) : os[i] = os[i + 1]

\* new Set(question.options).size !== question.options.length
HasDuplicates(os) == Cardinality({os[i] : i \in 1..Len(os)}) # Len(os)

DuplicateWarning ==
    Error("options", Msg("literal", "Duplicate options detected", 0, 0),
          Undefined, "duplicates")

DuplicateWarnings(q) ==
    IF q.options # {} /\ HasDuplicates(OptionsOf(q)) THEN <<DuplicateWarning>> ELSE <<>>

\* variant with a fault: the duplicates finding is pushed on the errors list
OptionsBlockErrorsWithDuplicates(q, opts) ==
    MinOptionsErrors(q, opts)
    \o MaxOptionsErrors(q, opts)
    \o EachOptionErrors(OptionsOf(q), 1, Len(OptionsOf(q)), opts)
    \o DuplicateWarnings(q)

\* what the block `if (question.options) { ... }` pushes on the errors list
OptionsBlockErrors(q, opts) ==
    MinOptionsErrors(q, opts)
    \o MaxOptionsErrors(q, opts)
    \o EachOptionErrors(OptionsOf(q), 1, Len(OptionsOf(q)), opts)

\* variant with a fault: an explanation that is not required is not looked at
ExplanationErrorsWhenRequired(q, opts) ==
    IF opts.requireExplanation
    THEN validateField(q.explanation,
            [NoRule("explanation") EXCEPT !.required = {opts.requireExplanation},
                                          !.minLength = {opts.explanationMinLength},
                                          !.maxLength = {opts.explanationMaxLength}])
    ELSE <<>>

\* opts.requireExplanation || question.explanation
ExplanationErrors(q, opts) ==
    IF opts.requireExplanation \/ Truthy(q.explanation)
    THEN validateField(q.explanation,
            [NoRule("explanation") EXCEPT !.required = {opts.requireExplanation},
                                          !.minLength = {opts.explanationMinLength},
                                          !.maxLength = {opts.explanationMaxLength}])
    ELSE <<>>

\* variant with a fault: a category must have at least two characters
CategoryErrorsWithMinLength(q, opts) ==
    IF opts.requireCategory
    THEN validateField(q.category,
            [NoRule("category") EXCEPT !.required = {TRUE}, !.minLength = {2}])
    ELSE <<>>

CategoryErrors(q, opts) ==
    IF opts.requireCategory
    THEN validateField(q.category, [NoRule("category") EXCEPT !.required = {TRUE}])
    ELSE <<>>

DifficultyErrors(q, opts) ==
    IF opts.requireDifficulty
    THEN validateField(q.difficulty, [NoRule("difficulty") EXCEPT !.required = {TRUE}])
    ELSE <<>>

\* variant with a fault: the loop ends after one rule
CustomRuleErrorsOneRule(q, rules, i) ==
    IF i > Len(rules) THEN <<>>
    ELSE validateField(FieldOf(q, rules[i].field), rules[i])

\* for (const rule of options.customRules) ..., from position i on
RECURSIVE CustomRuleErrors(_, _, _)
CustomRuleErrors(q, rules, i) ==
    IF i > Len(rules) THEN <<>>
    ELSE validateField(FieldOf(q, rules[i].field), rules[i])
         \o CustomRuleErrors(q, rules, i + 1)

\* variant with a fault: a question without correctAnswer gets a required error
ErrorsOfWithCorrectAnswer(q, o) ==
    LET opts == MergeOptions(o)
    IN QuestionTextErrors(q, opts)
       \o OptionsBlockErrors(q, opts)
       \o validateField(q.correctAnswer,
                         [NoRule("correctAnswer") EXCEPT !.required = {TRUE}])
       \o ExplanationErrors(q, opts)
       \o CategoryErrors(q, opts)
       \o DifficultyErrors(q, opts)
       \o CustomRuleErrors(q, CustomRulesOf(o), 1)

\* the errors list at the end of the call
ErrorsOf(q, o) ==
    LET opts == MergeOptions(o)
    IN QuestionTextErrors(q, opts)
       \o OptionsBlockErrors(q, opts)
       \o ExplanationErrors(q, opts)
       \o CategoryErrors(q, opts)
       \o DifficultyErrors(q, opts)
       \o CustomRuleErrors(q, CustomRulesOf(o), 1)

\* variant with a fault: the 4 base checks are counted only when options is present
TotalChecksBaseWhenOptions(q, o) ==
    LET opts == MergeOptions(o)
    IN (IF q.options # {} THEN 4 ELSE 1)
       + Len(OptionsOf(q))
       + (IF opts.requireExplanation THEN 1 ELSE 0)
       + (IF opts.requireCategory THEN 1 ELSE 0)
       + (IF opts.requireDifficulty THEN 1 ELSE 0)
       + Len(CustomRulesOf(o))

\* variant with a fault: 3 base checks, the two option-count checks counted as one
TotalChecksThreeBase(q, o) ==
    LET opts == MergeOptions(o)
    IN 3
       + Len(OptionsOf(q))
       + (IF opts.requireExplanation THEN 1 ELSE 0)
       + (IF opts.requireCategory THEN 1 ELSE 0)
       + (IF opts.requireDifficulty THEN 1 ELSE 0)
       + Len(CustomRulesOf(o))

\* const totalChecks = 4 + ...
TotalChecks(q, o) ==
    LET opts == MergeOptions(o)
    IN 4
       + Len(OptionsOf(q))
       + (IF opts.requireExplanation THEN 1 ELSE 0)
       + (IF opts.requireCategory THEN 1 ELSE 0)
       + (IF opts.requireDifficulty THEN 1 ELSE 0)
       + Len(CustomRulesOf(o))

\* Math.round(x) for x = num / den, den > 0: the nearest integer, a half
\* rounded towards +infinity.  The quotient is exact here; the code computes it
\* in doubles, which gives the same score for every (totalChecks, failedChecks)
\* the model reaches (the two first differ at 40 checks with 17 failed, where
\* the double 57.49999999999999 is rounded to 57).
MathRound(num, den) == (2 * num + den) \div (2 * den)

MathMax(a, b) == IF a >= b THEN a ELSE b

\* variant with a fault: + for -, the failed checks are added
ScoreSignSlip(total, failed) == MathMax(0, MathRound((total + failed) * 100, total))

\* Math.max(0, Math.round(((totalChecks - failedChecks) / totalChecks) * 100))
Score(total, failed) == MathMax(0, MathRound((total - failed) * 100, total))

\* variant with a fault: a warning makes the question invalid
ValidWithoutWarnings(errors, warnings) == Len(errors) = 0 /\ Len(warnings) = 0

\* valid: errors.length === 0
Valid(errors, warnings) == Len(errors) = 0

validateQuizQuestion(q, o) ==
    LET errors == ErrorsOf(q, o)
        warnings == DuplicateWarnings(q)
    IN [valid |-> Valid(errors, warnings),
        errors |-> errors,
        warnings |-> warnings,
        score |-> Score(TotalChecks(q, o), Len(errors))]

\* the options object after the call: each custom rule's RegExp has been used
OptionsAfter(q, o) ==
    IF o.customRules = {} THEN o
    ELSE [o EXCEPT !.customRules =
            {[i \in 1..Len(rules) |-> RuleAfter(FieldOf(q, rules[i].field), rules[i])] :
                rules \in o.customRules}]

----------------------------------------------------------------------------
(* validateQuizSet(questions, options) *)

\* the options object as the call on questions[i] finds it: the calls share
\* one options object, so the RegExps of its custom rules have been used by
\* the calls on questions[1] .. questions[i - 1]
RECURSIVE OptionsBefore(_, _, _)
OptionsBefore(qs, o, i) ==
    IF i = 1 THEN o
    ELSE OptionsAfter(qs[i - 1], OptionsBefore(qs, o, i - 1))

\* const results = questions.map((q) => validateQuizQuestion(q, options))
MapResults(qs, o) ==
    [i \in 1..Len(qs) |-> validateQuizQuestion(qs[i], OptionsBefore(qs, o, i))]

\* results.filter((r) => r.valid).length
PassedCount(results) == Cardinality({i \in 1..Len(results) : results[i].valid})

\* variant with a fault: the errors are counted, not the failed results
FailedCountOfErrors(results) ==
    Cardinality({<<i, p>> \in (1..Len(results)) \X (1..ManyOptions) :
                    p <= Len(results[i].errors)})

\* results.filter((r) => !r.valid).length
FailedCount(results) == Cardinality({i \in 1..Len(results) : ~results[i].valid})

\* results.reduce((sum, r) => sum + r.score, 0), over the first n results
RECURSIVE SumScores(_, _)
SumScores(results, n) ==
    IF n = 0 THEN 0 ELSE SumScores(results, n - 1) + results[n].score

\* variant with a fault: Math.floor for Math.round
AverageScoreFloor(results) ==
    SumScores(results, Len(results)) \div MathMax(1, Len(results))

\* Math.round(results.reduce(...) / Math.max(1, results.length))
AverageScore(results) ==
    MathRound(SumScores(results, Len(results)), MathMax(1, Len(results)))

\* variant with a fault: some result is valid (results.some for failed === 0)
SetValidSome(results) == \E i \in 1..Len(results) : results[i].valid

\* variant with a fault: only the first result is looked at
SetValidFirstOnly(results) == Len(results) = 0 \/ results[1].valid

\* valid: failed === 0
SetValid(results) == FailedCount(results) = 0

validateQuizSet(qs, o) ==
    LET results == MapResults(qs, o)
    IN [valid |-> SetValid(results),
        results |-> results,
        summary |-> [total |-> Len(qs),
                     passed |-> PassedCount(results),
                     failed |-> FailedCount(results),
                     averageScore |-> AverageScore(results)]]

----------------------------------------------------------------------------
(* convertFromQuizlet(content) *)

\* the white space of the model's alphabet (String.prototype.trim removes it)
IsSpace(c) == c \in {" ", "\n"}

\* the least and the greatest element of a non-empty set of integers
Least(S) == CHOOSE i \in S : \A j \in S : i <= j
Greatest(S) == CHOOSE i \in S : \A j \in S : i >= j

\* variant with a fault: only leading white space is removed (trimStart)
TrimStart(s) ==
    LET solid == {i \in 1..Len(s) : ~IsSpace(s[i])}
    IN IF solid = {} THEN <<>> ELSE SubSeq(s, Least(solid), Len(s))

\* s.trim()
Trim(s) ==
    LET solid == {i \in 1..Len(s) : ~IsSpace(s[i])}
    IN IF solid = {} THEN <<>> ELSE SubSeq(s, Least(solid), Greatest(solid))

\* s.split('\n'): the pieces between the line feeds, empty ones included
RECURSIVE Split(_)
Split(s) ==
    LET feeds == {i \in 1..Len(s) : s[i] = "\n"}
    IN IF feeds = {} THEN <<s>>
       ELSE <<SubSeq(s, 1, Least(feeds) - 1)>>
            \o Split(SubSeq(s, Least(feeds) + 1, Len(s)))

\* line.trim() is truthy
KeepsLine(line) == Trim(line) # <<>>

\* content.split('\n').filter(line => line.trim())
QuizletLines(s) == SelectSeq(Split(s), KeepsLine)

\* for (let i = 0; i < lines.length; i += 2) { if (i + 1 >= lines.length) break; ... }
\* from the line at position p (1-based, p = i + 1) on
RECURSIVE QuizletLoop(_, _)
QuizletLoop(lines, p) ==
    IF p > Len(lines) THEN <<>>
    ELSE IF p + 1 > Len(lines) THEN <<>>
    ELSE <<[question |-> Trim(lines[p]), explanation |-> Trim(lines[p + 1])]>>
         \o QuizletLoop(lines, p + 2)

convertFromQuizlet(s) == QuizletLoop(QuizletLines(s), 1)

\* the characters of the contents drawn as inputs
ContentChars == {"a", "b", " ", "\n"}

Contents == UNION {[1..n -> ContentChars] : n \in 0..MaxContentLen}

----------------------------------------------------------------------------
(* Inputs of validateQuizQuestion *)

A == Str(<<"a">>)
B == Str(<<"b">>)

QuestionTexts == {Undefined, Str(<<>>), Str(Rep(3)), Str(Rep(5)), Str(Rep(7))}

OptionLists ==
    {<<>>, <<A>>, <<A, B>>, <<A, B, A>>, <<Str(<<>>), A>>, <<Str(Rep(3)), Str(Rep(2))>>}

\* ManyOptions distinct options: 'a', 'aa', 'aaa', ...
ManyOptionList == [i \in 1..ManyOptions |-> Str(Rep(i))]

SmallQuestions ==
    {Question(Undefined, text, os, Undefined, expl, cd[1], cd[2], pts) :
        text \in QuestionTexts, os \in Optional(OptionLists),
        expl \in {Undefined, Str(Rep(3)), Str(Rep(12))},
        cd \in {<<Undefined, Undefined>>, <<B, Num(3)>>},
        pts \in {Num(5), Num(10)}}

BigQuestions ==
    {Question(Undefined, text, {ManyOptionList}, Undefined, Undefined, Undefined,
              Undefined, Undefined) :
        text \in {Str(Rep(3)), Str(Rep(5))}}

\* the custom rule of the test-suite, and a rule with a global pattern
PointsRule ==
    [NoRule("points") EXCEPT !.customValidator = {"ge10"},
                             !.errorMessage = {"Points must be at least 10"}]
CategoryRule == [NoRule("category") EXCEPT !.pattern = {RegExp(TRUE)}]

NoOptions ==
    [questionMinLength |-> {}, questionMaxLength |-> {},
     optionMinLength |-> {}, optionMaxLength |-> {},
     explanationMinLength |-> {}, explanationMaxLength |-> {},
     minOptions |-> {}, maxOptions |-> {},
     requireExplanation |-> {}, requireCategory |-> {}, requireDifficulty |-> {},
     customRules |-> {}]

SmallOptions ==
    {[NoOptions EXCEPT !.questionMaxLength = qmax,
                       !.optionMinLength = olen[1], !.optionMaxLength = olen[2],
                       !.minOptions = mino, !.maxOptions = maxo,
                       !.requireExplanation = re, !.requireCategory = rc,
                       !.requireDifficulty = rd, !.customRules = cr] :
        qmax \in Optional({5}), olen \in {<<{}, {}>>, <<{2}, {}>>, <<{}, {2}>>},
        mino \in Optional({3}), maxo \in Optional({1}),
        re \in Optional({TRUE}), rc \in Optional({TRUE}), rd \in Optional({TRUE}),
        cr \in Optional({<<PointsRule, CategoryRule>>})}

BigOptions == {NoOptions, [NoOptions EXCEPT !.maxOptions = {ManyOptions}]}

----------------------------------------------------------------------------
(* Inputs of validateQuizQuestion that exercise the explanation, category,
   difficulty, custom rule and duplicate steps *)

\* a rule on a field that no question of the model has
TimeLimitRule == [NoRule("timeLimit") EXCEPT !.required = {TRUE}]

\* option lists without a repeat, with one value three times, and with two
\* values repeated
FieldOptionLists == {<<A, B>>, <<A, A, A>>, <<A, B, A, B>>}

FieldQuestions ==
    {Question(ic[1], text, os, ic[2], expl, cat, diff, pts) :
        ic \in {<<Undefined, Undefined>>, <<Num(3), A>>},
        text \in {Str(Rep(3)), Str(Rep(5))},
        os \in Optional(FieldOptionLists),
        expl \in {Undefined, Str(<<>>), Str(Rep(3)), Str(Rep(12))},
        cat \in {Undefined, Str(<<>>), A, B},
        diff \in {Undefined, Num(3)},
        pts \in {Num(5), Num(10)}}

FieldOptions ==
    {[NoOptions EXCEPT !.explanationMinLength = elen[1],
                       !.explanationMaxLength = elen[2],
                       !.requireExplanation = re, !.requireCategory = rc,
                       !.requireDifficulty = rd, !.customRules = cr] :
        elen \in {<<{}, {}>>, <<{3}, {11}>>},
        re \in Optional({TRUE}), rc \in Optional({TRUE}), rd \in Optional({TRUE}),
        cr \in Optional({<<PointsRule, CategoryRule>>,
                         <<CategoryRule, TimeLimitRule, PointsRule>>})}

----------------------------------------------------------------------------
(* Inputs of validateQuizSet *)

\* a question with nothing but its text
OnlyText(text) ==
    Question(Undefined, text, {}, Undefined, Undefined, Undefined, Undefined, Undefined)

\* a valid question, a question that supplies only its text ({question: 'Test?'}),
\* a question with a category, and two invalid ones: one error in 6 checks
\* (score 83) and two errors in 5 checks (score 60)
SetQuestionPool ==
    {[OnlyText(Str(Rep(5))) EXCEPT !.options = {<<A, B>>}],
     OnlyText(Str(Rep(5))),
     [OnlyText(Str(Rep(5))) EXCEPT !.options = {<<A, B>>}, !.category = B],
     [OnlyText(Str(<<>>)) EXCEPT !.options = {<<A, B>>}],
     [OnlyText(Str(Rep(3))) EXCEPT !.options = {<<A>>}]}

\* the sequences of at most n elements of S
RECURSIVE SeqsUpTo(_, _)
SeqsUpTo(S, n) ==
    IF n = 0 THEN {<<>>}
    ELSE LET shorter == SeqsUpTo(S, n - 1)
         IN shorter \cup {Append(s, x) : s \in {u \in shorter : Len(u) = n - 1}, x \in S}

QuestionSequences == SeqsUpTo(SetQuestionPool, MaxQuestions)

SetOptionsPool ==
    {NoOptions,
     [NoOptions EXCEPT !.requireCategory = {TRUE}],
     [NoOptions EXCEPT !.customRules = {<<CategoryRule>>}],
     [NoOptions EXCEPT !.customRules =
         {<<[NoRule("category") EXCEPT !.pattern = {RegExp(FALSE)}]>>}]}

----------------------------------------------------------------------------
(* validateCommand(file, options) and batchCommand(directory, options) *)

\* a file as the commands meet it: fs.readFileSync throws ("unreadable"),
\* JSON.parse throws ("garbage"), JSON.parse returns a value that is not an
\* array, whose .map is not a function ("notArray"), or JSON.parse returns
\* the array of questions ("array")
File(kind, qs) == [kind |-> kind, questions |-> qs]

\* readFileSync, JSON.parse and questions.map all return
Loads(file) == file.kind = "array"

\* {requireExplanation: options.strict, requireCategory: options.strict,
\* requireDifficulty: options.strict}: without --strict the three properties
\* are passed as undefined, which the merge copies over the default false;
\* validateQuizQuestion reads only their truthiness, so that the options
\* behave as those that leave the three properties out
StrictOptions(strict) ==
    [NoOptions EXCEPT !.requireExplanation = strict,
                      !.requireCategory = strict,
                      !.requireDifficulty = strict]

\* the report reaches its destination: console.log, or fs.writeFileSync on a
\* path that can be written
WritesReport(o) == o.output = {} \/ o.output = {TRUE}

\* variant with a fault: the process ends with 0 whatever the result is
validateCommandExitAlwaysZero(file, o) ==
    IF ~Loads(file) THEN 1
    ELSE IF ~WritesReport(o) THEN 1
    ELSE 0

\* the status validateCommand passes to process.exit
validateCommandExit(file, o) ==
    IF ~Loads(file) THEN 1
    ELSE IF ~WritesReport(o) THEN 1
    ELSE IF validateQuizSet(file.questions, StrictOptions(o.strict)).valid THEN 0
    ELSE 1

\* the status the process ends with after batchCommand: 1 from the catch
\* block; otherwise the command returns without calling process.exit and
\* without setting process.exitCode, and the process ends with status 0
batchCommandExit(fs, o) ==
    IF ~o.canScan THEN 1
    ELSE IF \E i \in 1..Len(fs) : ~Loads(fs[i]) THEN 1
    ELSE IF ~WritesReport(o) THEN 1
    ELSE 0

\* a question that is valid with --strict, one that is valid only without
\* it, and one that is not valid
CliQuestionPool ==
    {[OnlyText(Str(Rep(5))) EXCEPT !.options = {<<A, B>>}, !.explanation = Str(Rep(12)),
                                   !.category = B, !.difficulty = Num(3)],
     [OnlyText(Str(Rep(5))) EXCEPT !.options = {<<A, B>>}],
     [OnlyText(Str(Rep(3))) EXCEPT !.options = {<<A>>}]}

CliFiles ==
    {File(kind, <<>>) : kind \in {"unreadable", "garbage", "notArray"}}
    \cup {File("array", qs) : qs \in SeqsUpTo(CliQuestionPool, MaxQuestions)}

\* --format, --output (a path that can or cannot be written) and --strict
ValidateOptions ==
    [strict : Optional({TRUE}), format : {"json", "html", "markdown"},
     output : Optional(BOOLEAN), canScan : {TRUE}]

\* --output, and whether the directory can be scanned (fs.readdirSync and
\* fs.statSync return)
BatchOptions ==
    [strict : {{}}, format : {"markdown"}, output : Optional(BOOLEAN),
     canScan : BOOLEAN]

----------------------------------------------------------------------------
(* The state machine *)

NoResult == [valid |-> FALSE, errors |-> <<>>, warnings |-> <<>>, score |-> 0]

NoSetResult ==
    [valid |-> FALSE, results |-> <<>>,
     summary |-> [total |-> 0, passed |-> 0, failed |-> 0, averageScore |-> 0]]

\* the options of a command that was not started
NoCliOptions ==
    [strict |-> {}, format |-> "markdown", output |-> {}, canScan |-> TRUE]

FieldIdle ==
    /\ value = Undefined
    /\ rule = NoRule("test")
    /\ ruleArg = rule
    /\ fieldResult = <<>>
    /\ consulted = FALSE
    /\ fieldCalls = 0

QuizIdle ==
    /\ question = Question(Undefined, Undefined, {}, Undefined, Undefined, Undefined,
                           Undefined, Undefined)
    /\ options = NoOptions
    /\ optionsArg = options
    /\ result = NoResult
    /\ totalChecks = 0
    /\ quizCalls = 0

SetIdle ==
    /\ questions = <<>>
    /\ setOptions = NoOptions
    /\ setOptionsArg = setOptions
    /\ setResult = NoSetResult
    /\ setCalls = 0

ImportIdle ==
    /\ content = <<>>
    /\ imported = <<>>
    /\ importCalls = 0

\* exitStatus while the process has not ended
NotExited == -1

CliIdle ==
    /\ command = "none"
    /\ files = <<>>
    /\ cliOptions = NoCliOptions
    /\ exitStatus = NotExited

\* a caller holds a value and a rule, and has not called validateField yet
InitField ==
    /\ value \in Values
    /\ rule \in Rules
    /\ ruleArg = rule
    /\ fieldResult = <<>>
    /\ consulted = FALSE
    /\ fieldCalls = 0
    /\ QuizIdle
    /\ SetIdle
    /\ ImportIdle
    /\ CliIdle

\* a caller holds a question and options, and has not called validateQuizQuestion yet
InitQuiz ==
    /\ \/ question \in SmallQuestions /\ options \in SmallOptions
       \/ question \in BigQuestions /\ options \in BigOptions
    /\ optionsArg = options
    /\ result = NoResult
    /\ totalChecks = 0
    /\ quizCalls = 0
    /\ FieldIdle
    /\ SetIdle
    /\ ImportIdle
    /\ CliIdle

\* the same caller, with the inputs that exercise the later steps
InitQuizFields ==
    /\ question \in FieldQuestions
    /\ options \in FieldOptions
    /\ optionsArg = options
    /\ result = NoResult
    /\ totalChecks = 0
    /\ quizCalls = 0
    /\ FieldIdle
    /\ SetIdle
    /\ ImportIdle
    /\ CliIdle

\* a caller holds a sequence of questions and options, and has not called
\* validateQuizSet yet
InitSet ==
    /\ questions \in QuestionSequences
    /\ setOptions \in SetOptionsPool
    /\ setOptionsArg = setOptions
    /\ setResult = NoSetResult
    /\ setCalls = 0
    /\ FieldIdle
    /\ QuizIdle
    /\ ImportIdle
    /\ CliIdle

\* a caller holds the content of a Quizlet export, and has not called
\* convertFromQuizlet yet
InitQuizlet ==
    /\ content \in Contents
    /\ imported = <<>>
    /\ importCalls = 0
    /\ FieldIdle
    /\ QuizIdle
    /\ SetIdle
    /\ CliIdle

\* the process was started with `validate <file>` or with `batch <directory>`;
\* a directory that cannot be scanned yields no file
InitCli ==
    /\ \/ /\ command = "validate"
          /\ files \in {<<f>> : f \in CliFiles}
          /\ cliOptions \in ValidateOptions
       \/ /\ command = "batch"
          /\ cliOptions \in BatchOptions
          /\ files \in SeqsUpTo(CliFiles, MaxFiles)
          /\ ~cliOptions.canScan => files = <<>>
    /\ exitStatus = NotExited
    /\ FieldIdle
    /\ QuizIdle
    /\ SetIdle
    /\ ImportIdle

\* validateField(value, rule)
CallValidateField ==
    /\ fieldCalls < MaxCalls
    /\ fieldResult' = validateField(value, rule)
    /\ consulted' = ConsultsCustom(value, rule)
    /\ ruleArg' = rule
    /\ rule' = RuleAfter(value, rule)
    /\ fieldCalls' = fieldCalls + 1
    /\ UNCHANGED <<value, quizVars, setVars, importVars, cliVars>>

\* validateQuizQuestion(question, options)
CallValidateQuizQuestion ==
    /\ quizCalls = 0
    /\ result' = validateQuizQuestion(question, options)
    /\ totalChecks' = TotalChecks(question, options)
    /\ optionsArg' = options
    /\ options' = OptionsAfter(question, options)
    /\ quizCalls' = quizCalls + 1
    /\ UNCHANGED <<question, fieldVars, setVars, importVars, cliVars>>

\* validateQuizSet(questions, options)
CallValidateQuizSet ==
    /\ setCalls = 0
    /\ setResult' = validateQuizSet(questions, setOptions)
    /\ setOptionsArg' = setOptions
    /\ setOptions' = OptionsBefore(questions, setOptions, Len(questions) + 1)
    /\ setCalls' = setCalls + 1
    /\ UNCHANGED <<questions, fieldVars, quizVars, importVars, cliVars>>

\* convertFromQuizlet(content)
CallConvertFromQuizlet ==
    /\ importCalls = 0
    /\ imported' = convertFromQuizlet(content)
    /\ importCalls' = importCalls + 1
    /\ UNCHANGED <<content, fieldVars, quizVars, setVars, cliVars>>

NextField == CallValidateField
NextQuiz == CallValidateQuizQuestion
\* validateCommand(file, options), up to the end of the process
RunValidateCommand ==
    /\ command = "validate"
    /\ exitStatus = NotExited
    /\ exitStatus' = validateCommandExit(files[1], cliOptions)
    /\ UNCHANGED <<command, files, cliOptions, fieldVars, quizVars, setVars, importVars>>

\* batchCommand(directory, options), up to the end of the process
RunBatchCommand ==
    /\ command = "batch"
    /\ exitStatus = NotExited
    /\ exitStatus' = batchCommandExit(files, cliOptions)
    /\ UNCHANGED <<command, files, cliOptions, fieldVars, quizVars, setVars, importVars>>

NextSet == CallValidateQuizSet
NextQuizlet == CallConvertFromQuizlet
NextCli == RunValidateCommand \/ RunBatchCommand

SpecField == InitField /\ [][NextField]_vars
SpecQuiz == InitQuiz /\ [][NextQuiz]_vars
SpecQuizFields == InitQuizFields /\ [][NextQuiz]_vars
SpecSet == InitSet /\ [][NextSet]_vars
SpecQuizlet == InitQuizlet /\ [][NextQuizlet]_vars
SpecCli == InitCli /\ [][NextCli]_vars

----------------------------------------------------------------------------
(* Properties of validateQuizQuestion, checked under SpecQuiz *)

Called == quizCalls > 0

\* C1: for every question and options, the result of validateQuizQuestion has
\* valid = true if and only if its errors list is empty.
C1_ValidIffNoErrors ==
    Called => (result.valid <=> Len(result.errors) = 0)

\* a call that returned valid = true together with a warning
C1_Witness ==
    Called /\ result.valid /\ Len(result.warnings) > 0

\* C2: for every question and options, the score returned by
\* validateQuizQuestion is an integer with 0 <= score <= 100.
C2_ScoreInRange ==
    Called => result.score \in 0..100

\* a call on more than ManyOptions checks that returned a score strictly
\* between the two ends of the range
C2_Witness ==
    Called /\ totalChecks > ManyOptions /\ result.score > 0 /\ result.score < 100

\* C3: validateQuizQuestion returns score = 100 if and only if the errors list
\* is empty, large option counts and a raised maxOptions included.
C3_FullScoreIffNoErrors ==
    Called => (result.score = 100 <=> Len(result.errors) = 0)

\* the number of options the question passed to the last call supplies
C4_OptionCount ==
    IF question.options = {} THEN 0
    ELSE Len(CHOOSE os \in question.options : TRUE)

\* the number of custom rules the options passed to the last call supply
C4_CustomRuleCount ==
    IF optionsArg.customRules = {} THEN 0
    ELSE Len(CHOOSE rules \in optionsArg.customRules : TRUE)

C4_Total ==
    4 + C4_OptionCount
      + (IF optionsArg.requireExplanation = {TRUE} THEN 1 ELSE 0)
      + (IF optionsArg.requireCategory = {TRUE} THEN 1 ELSE 0)
      + (IF optionsArg.requireDifficulty = {TRUE} THEN 1 ELSE 0)
      + C4_CustomRuleCount

\* r is (t - f) / t * 100 rounded to the nearest integer, a half rounded up
C4_IsRounded(r, t, f) ==
    /\ 2 * t * r <= 200 * (t - f) + t
    /\ 200 * (t - f) + t < 2 * t * (r + 1)

C5_Within(v, lo, hi) == IsString(v) /\ Len(v.s) >= lo /\ Len(v.s) <= hi

\* the question of the last call has duplicated option values and no other
\* defect under the options of the call
C5_OnlyDuplicates ==
    LET opts == MergeOptions(optionsArg)
        os == OptionsOf(question)
        rules == CustomRulesOf(optionsArg)
    IN /\ question.options # {}
       /\ \E i, j \in 1..Len(os) : i < j /\ os[i] = os[j]
       /\ C5_Within(question.question, MathMax(1, opts.questionMinLength),
                    opts.questionMaxLength)
       /\ Len(os) >= opts.minOptions /\ Len(os) <= opts.maxOptions
       /\ \A i \in 1..Len(os) :
             C5_Within(os[i], MathMax(1, opts.optionMinLength), opts.optionMaxLength)
       /\ IF question.explanation = Undefined
          THEN ~opts.requireExplanation
          ELSE C5_Within(question.explanation, MathMax(1, opts.explanationMinLength),
                         opts.explanationMaxLength)
       /\ opts.requireCategory => question.category # Undefined
       /\ opts.requireDifficulty => question.difficulty # Undefined
       /\ \A i \in 1..Len(rules) :
             validateField(FieldOf(question, rules[i].field), rules[i]) = <<>>

\* C5: warnings never take part in validity or score: a question whose only
\* defect is duplicated option values gets valid = true and score = 100, and a
\* duplicate never adds an entry to the errors list.
C5_DuplicatesOnlyWarn ==
    Called =>
        /\ \A i \in 1..Len(result.errors) :
              /\ result.errors[i].rule # "duplicates"
              /\ result.errors[i] # DuplicateWarning
        /\ C5_OnlyDuplicates =>
              /\ result.valid
              /\ result.score = 100
              /\ result.errors = <<>>

\* a call on a question whose only defect is duplicated options, which was warned of
C5_Witness ==
    Called /\ C5_OnlyDuplicates /\ Len(result.warnings) = 1

----------------------------------------------------------------------------
(* Properties of validateField, checked under SpecField *)

FieldCalled == fieldCalls > 0

\* the value is undefined, null or the empty string
AbsentValue == value \in {Undefined, Null, Str(<<>>)}

\* the result is one error of the given kind on the rule's field
ReturnsError(kind) ==
    /\ Len(fieldResult) = 1
    /\ fieldResult[1].rule = kind
    /\ fieldResult[1].field = ruleArg.field

\* C6 as stated: for every rule with required = true and every absent value,
\* validateField returns a 'required' error on the rule's field whose message is
\* rule.errorMessage when set and '<field> is required' otherwise.
C6_RequiredMessageWhenSet ==
    (FieldCalled /\ TRUE \in ruleArg.required /\ AbsentValue) =>
        /\ ReturnsError("required")
        /\ fieldResult[1].message =
              IF ruleArg.errorMessage # {}
              THEN Msg("literal", CHOOSE m \in ruleArg.errorMessage : TRUE, 0, 0)
              ELSE Msg("required", ruleArg.field, 0, 0)

\* C6, amended: for every rule with required = true and every absent value,
\* validateField returns a 'required' error on the rule's field, whatever the
\* rule's other fields are; its message is rule.errorMessage when that is a
\* non-empty string and '<field> is required' otherwise (an empty errorMessage
\* counts as not set).
C6_RequiredError ==
    (FieldCalled /\ TRUE \in ruleArg.required /\ AbsentValue) =>
        /\ ReturnsError("required")
        /\ fieldResult[1].value = value
        /\ fieldResult[1].message =
              IF ruleArg.errorMessage \in {{}, {""}}
              THEN Msg("required", ruleArg.field, 0, 0)
              ELSE Msg("literal", CHOOSE m \in ruleArg.errorMessage : TRUE, 0, 0)

\* a call with the empty string on a required rule that also sets a length
\* bound, a custom validator and an empty errorMessage
C6_Witness ==
    /\ FieldCalled
    /\ value = Str(<<>>)
    /\ TRUE \in ruleArg.required
    /\ ruleArg.minLength # {}
    /\ ruleArg.customValidator # {}
    /\ ruleArg.errorMessage = {""}
    /\ Len(fieldResult) = 1

\* C7: for every rule whose required flag is false or unset and every absent
\* value, validateField returns null, regardless of minLength, maxLength,
\* pattern and customValidator, and the custom predicate is not consulted.
C7_OptionalAbsentSkipped ==
    (FieldCalled /\ ~(TRUE \in ruleArg.required) /\ AbsentValue) =>
        /\ fieldResult = <<>>
        /\ ~consulted

\* a call with the empty string on an optional rule that sets a minLength, a
\* pattern and a custom validator the empty string fails
C7_Witness ==
    /\ FieldCalled
    /\ value = Str(<<>>)
    /\ ruleArg.required = {FALSE}
    /\ ruleArg.minLength = {2}
    /\ ruleArg.pattern # {}
    /\ ruleArg.customValidator = {"ge10"}
    /\ fieldResult = <<>>

\* the rule's only constraint is minLength
C8_OnlyMinLength ==
    /\ ruleArg.minLength # {}
    /\ ~(TRUE \in ruleArg.required)
    /\ ruleArg.maxLength = {} /\ ruleArg.pattern = {} /\ ruleArg.customValidator = {}

\* the rule's only constraint is maxLength
C8_OnlyMaxLength ==
    /\ ruleArg.maxLength # {}
    /\ ~(TRUE \in ruleArg.required)
    /\ ruleArg.minLength = {} /\ ruleArg.pattern = {} /\ ruleArg.customValidator = {}

\* C8 as stated: for all string values v, the empty string included, a rule
\* whose only constraint is minLength = m gives an error iff len(v) < m, and a
\* rule whose only constraint is maxLength = M gives an error iff len(v) > M.
C8_LengthBoundsAllStrings ==
    (FieldCalled /\ IsString(value)) =>
        /\ C8_OnlyMinLength =>
              (fieldResult # <<>> <=> \E m \in ruleArg.minLength : Len(value.s) < m)
        /\ C8_OnlyMaxLength =>
              (fieldResult # <<>> <=> \E m \in ruleArg.maxLength : Len(value.s) > m)

\* C8, amended: for all non-empty string values v, a rule whose only
\* constraint is minLength = m gives an error iff len(v) < m; the empty string
\* gets no error under such a rule, whatever m is.  A rule whose only
\* constraint is maxLength = M gives an error iff len(v) > M, for all string
\* values (bounds inclusive).
C8_LengthBounds ==
    (FieldCalled /\ IsString(value)) =>
        /\ (C8_OnlyMinLength /\ Len(value.s) > 0) =>
              (fieldResult # <<>> <=> \E m \in ruleArg.minLength : Len(value.s) < m)
        /\ (C8_OnlyMinLength /\ Len(value.s) = 0) => fieldResult = <<>>
        /\ C8_OnlyMaxLength =>
              (fieldResult # <<>> <=> \E m \in ruleArg.maxLength : Len(value.s) > m)

\* a call with a non-empty string whose length is exactly the minLength of a
\* rule that constrains nothing else: the value is accepted
C8_Witness ==
    /\ FieldCalled
    /\ C8_OnlyMinLength
    /\ Len(value.s) > 0
    /\ ruleArg.minLength = {Len(value.s)}
    /\ fieldResult = <<>>

\* the checks of validateField, in their fixed order
C9_Order == <<"required", "minLength", "maxLength", "pattern", "custom">>

\* the value passed to the last call violates the given check of the rule
C9_Violates(kind) ==
    CASE kind = "required" -> TRUE \in ruleArg.required /\ AbsentValue
      [] kind = "minLength" ->
            value.t = "string" /\ \E m \in ruleArg.minLength : Len(value.s) < m
      [] kind = "maxLength" ->
            value.t = "string" /\ \E m \in ruleArg.maxLength : Len(value.s) > m
      [] kind = "pattern" ->
            value.t = "string" /\ \E re \in ruleArg.pattern : ~RegExpTest(re, value.s)
      [] kind = "custom" ->
            \E c \in ruleArg.customValidator : ~ApplyValidator(c, value)

\* the kinds of the checks the value violates
C9_ViolatedPositions == {i \in 1..Len(C9_Order) : C9_Violates(C9_Order[i])}

\* C9: validateField returns at most one error, and its kind is the first
\* violated check in the order required, minLength, maxLength, pattern, custom;
\* a value that is present and violates several checks gets the earliest only.
C9_FirstViolatedCheck ==
    FieldCalled =>
        /\ Len(fieldResult) <= 1
        /\ Len(fieldResult) = 1 =>
              /\ C9_ViolatedPositions # {}
              /\ \E i \in C9_ViolatedPositions :
                    /\ \A j \in C9_ViolatedPositions : i <= j
                    /\ ReturnsError(C9_Order[i])
        /\ (~AbsentValue /\ C9_ViolatedPositions # {}) => Len(fieldResult) = 1

\* a call with a string that is too short, fails the pattern and fails the
\* custom validator: the error is the minLength one
C9_Witness ==
    /\ FieldCalled
    /\ {2, 4, 5} \subseteq C9_ViolatedPositions
    /\ ReturnsError("minLength")

\* C10: for a non-string, non-absent value (number, array, boolean),
\* validateField never returns a minLength, maxLength or pattern error: the
\* outcome is a 'custom' error exactly when a customValidator is present and
\* returns false, and null otherwise.
C10_NonStringOnlyCustom ==
    (FieldCalled /\ value.t \in {"number", "array", "boolean"}) =>
        IF \E c \in ruleArg.customValidator : ~ApplyValidator(c, value)
        THEN ReturnsError("custom")
        ELSE fieldResult = <<>>

\* a call with the number 3 on a required rule with length bounds, a pattern
\* and the validator "even": the error is the custom one
C10_Witness ==
    /\ FieldCalled
    /\ value = Num(3)
    /\ TRUE \in ruleArg.required
    /\ ruleArg.minLength = {4}
    /\ ruleArg.maxLength = {1}
    /\ ruleArg.pattern # {}
    /\ ruleArg.customValidator = {"even"}
    /\ ReturnsError("custom")

----------------------------------------------------------------------------
(* Properties of the built-in steps of validateQuizQuestion, under SpecQuiz.
   The custom rules of the model name the fields points and category, so every
   error on question, options or options[i] comes from a built-in step. *)

\* the positions of result.errors that hold an error on the given field
ErrorsOn(field) == {p \in 1..Len(result.errors) : result.errors[p].field = field}

\* result.errors holds exactly one error on the field, of the given kind, or
\* none when the kind is "none"
ExactlyOneOrNone(field, kind) ==
    IF kind = "none" THEN ErrorsOn(field) = {}
    ELSE /\ Cardinality(ErrorsOn(field)) = 1
         /\ \A p \in ErrorsOn(field) : result.errors[p].rule = kind

\* the defect of a text under the bounds lo and hi
DefectOf(v, lo, hi) ==
    IF v \in {Undefined, Null, Str(<<>>)} THEN "required"
    ELSE IF v.t = "string" /\ Len(v.s) < lo THEN "minLength"
    ELSE IF v.t = "string" /\ Len(v.s) > hi THEN "maxLength"
    ELSE "none"

\* C18: the question text contributes exactly one error on field 'question'
\* when it is absent (kind required), shorter than questionMinLength (kind
\* minLength) or longer than questionMaxLength (kind maxLength), and no error
\* otherwise; a text whose length equals a bound is accepted.
C18_QuestionText ==
    Called =>
        ExactlyOneOrNone("question",
            DefectOf(question.question,
                     MergeOptions(optionsArg).questionMinLength,
                     MergeOptions(optionsArg).questionMaxLength))

\* a call on a text whose length is both bounds, which is accepted
C18_Witness ==
    /\ Called
    /\ question.question = Str(Rep(5))
    /\ optionsArg.questionMaxLength = {5}
    /\ MergeOptions(optionsArg).questionMinLength = 5
    /\ ErrorsOn("question") = {}
    /\ ~result.valid

\* the positions of result.errors that hold an error of the given kind on 'options'
C19_CountErrors(kind) ==
    {p \in ErrorsOn("options") : result.errors[p].rule = kind}

\* the labels options[0], options[1], ... of the options of a list as long as
\* the longest one of the model
C19_OptionFields == {OptionField(i) : i \in 0..ManyOptions}

C20_Options == IF question.options = {} THEN <<>> ELSE CHOOSE os \in question.options : TRUE

\* the index (from 0) of the option an error is labelled with, -1 for an
\* error on another field
C20_IndexOf(e) ==
    IF \E i \in 0..(Len(C20_Options) - 1) : OptionField(i) = e.field
    THEN CHOOSE i \in 0..(Len(C20_Options) - 1) : OptionField(i) = e.field
    ELSE -1

\* C20: each option at index i contributes at most one error, labelled with
\* field 'options[i]', and does so iff the option is empty (kind required),
\* shorter than optionMinLength or longer than optionMaxLength; the per-option
\* errors appear in increasing index order.
C20_PerOptionErrors ==
    Called =>
        /\ \A i \in 0..(Len(C20_Options) - 1) :
              ExactlyOneOrNone(OptionField(i),
                  DefectOf(C20_Options[i + 1],
                           MergeOptions(optionsArg).optionMinLength,
                           MergeOptions(optionsArg).optionMaxLength))
        /\ \A p \in 1..Len(result.errors) :
              result.errors[p].field \in C19_OptionFields =>
                  C20_IndexOf(result.errors[p]) >= 0
        /\ \A p, r \in 1..Len(result.errors) :
              (p < r /\ C20_IndexOf(result.errors[p]) >= 0
                     /\ C20_IndexOf(result.errors[r]) >= 0)
                  => C20_IndexOf(result.errors[p]) < C20_IndexOf(result.errors[r])

\* a call on an empty option followed by one shorter than optionMinLength:
\* a required error on options[0], then a minLength error on options[1]
C20_Witness ==
    /\ Called
    /\ \E p, r \in 1..Len(result.errors) :
          /\ p < r
          /\ result.errors[p].field = OptionField(0)
          /\ result.errors[p].rule = "required"
          /\ result.errors[r].field = OptionField(1)
          /\ result.errors[r].rule = "minLength"

----------------------------------------------------------------------------
(* Claims about validateQuizSet (SpecSet) *)

SetCalled == setCalls > 0

\* the positions of the returned results that are valid
ValidResults == {i \in 1..Len(setResult.results) : setResult.results[i].valid}

\* C11: for every sequence of questions, summary.total is the number of
\* questions, summary.passed the number of results with valid = true,
\* summary.failed the number with valid = false, and passed + failed = total.
C11_Summary ==
    SetCalled =>
        /\ setResult.summary.total = Len(questions)
        /\ setResult.summary.passed = Cardinality(ValidResults)
        /\ setResult.summary.failed =
               Cardinality((1..Len(setResult.results)) \ ValidResults)
        /\ setResult.summary.passed + setResult.summary.failed
               = setResult.summary.total

\* two questions, one passed and one failed with two errors
C11_Witness ==
    /\ SetCalled
    /\ setResult.summary.total = 2
    /\ setResult.summary.passed = 1
    /\ setResult.summary.failed = 1
    /\ \E i \in 1..2 : Len(setResult.results[i].errors) = 2

\* C12: the set-level valid is true if and only if every contained result is
\* valid, equivalently summary.failed = 0; it is true for the empty sequence.
C12_SetValid ==
    SetCalled =>
        /\ setResult.valid <=> ValidResults = 1..Len(setResult.results)
        /\ setResult.valid <=> setResult.summary.failed = 0
        /\ Len(questions) = 0 => setResult.valid

\* the first question passes, the second fails, and the set is not valid
C12_Witness ==
    /\ SetCalled
    /\ Len(setResult.results) = 2
    /\ setResult.results[1].valid
    /\ ~setResult.results[2].valid
    /\ ~setResult.valid

\* C13: validateQuizSet returns one result per question, and results[i] is
\* what validateQuizQuestion(questions[i], options) returns on its own, so that
\* no other question of the sequence has a part in it.
C13_PerQuestion ==
    SetCalled =>
        /\ Len(setResult.results) = Len(questions)
        /\ \A i \in 1..Len(questions) :
               setResult.results[i]
                   = validateQuizQuestion(questions[i], setOptionsArg)

\* C14: summary.averageScore is the sum of the scores over max(1, N), rounded
\* to the nearest integer (halves upwards); it lies in 0..100 and is 0 when
\* N = 0.
C14_AverageScore ==
    SetCalled =>
        LET N == Len(setResult.results)
            sum == SumScores(setResult.results, N)
            avg == setResult.summary.averageScore
            den == MathMax(1, N)
        IN /\ 2 * den * avg <= 2 * sum + den
           /\ 2 * sum + den < 2 * den * (avg + 1)
           /\ avg \in 0..100
           /\ N = 0 => avg = 0

\* two scores with an odd sum: the mean ends in .5 and is rounded upwards
C14_Witness ==
    /\ SetCalled
    /\ Len(setResult.results) = 2
    /\ SumScores(setResult.results, 2) % 2 = 1
    /\ 2 * setResult.summary.averageScore = SumScores(setResult.results, 2) + 1

\* C15: on the empty sequence, with any options, validateQuizSet returns
\* valid = true, results = [] and summary {total: 0, passed: 0, failed: 0,
\* averageScore: 0}.
C15_EmptySet ==
    (SetCalled /\ questions = <<>>) =>
        setResult =
            [valid |-> TRUE, results |-> <<>>,
             summary |-> [total |-> 0, passed |-> 0, failed |-> 0,
                          averageScore |-> 0]]

\* the empty sequence validated under options that are not the defaults
C15_Witness ==
    /\ SetCalled
    /\ questions = <<>>
    /\ setOptionsArg.requireCategory = {TRUE}
    /\ setResult.valid

\* C16: a question that supplies only its question text ({question: 'Test?'}),
\* validated under the default options, is reported as failed: the set is not
\* valid and summary.failed = 1.
C16_OnlyTextFails ==
    (SetCalled /\ questions = <<OnlyText(Str(Rep(5)))>> /\ setOptionsArg = NoOptions) =>
        /\ ~setResult.valid
        /\ setResult.summary.failed = 1

----------------------------------------------------------------------------
(* Claims about repeated calls (SpecField) *)

\* C17: a second call of validateField with the same value and the same rule
\* returns what the first call returned.
C17_Deterministic ==
    [][fieldCalls >= 1 => fieldResult' = fieldResult]_vars

----------------------------------------------------------------------------
(* Claims about the later steps of validateQuizQuestion (SpecQuizFields) *)

\* the option values that occur more than once in the question's options
RepeatedOptions ==
    LET os == OptionsOf(question)
    IN {os[i] : i \in {k \in 1..Len(os) : \E j \in 1..Len(os) : j # k /\ os[j] = os[k]}}

\* C21: the warnings list holds exactly one entry, of kind 'duplicates' on
\* field 'options', iff options is present and some value occurs more than
\* once, however many values repeat; otherwise it is empty.
C21_DuplicateWarning ==
    Called =>
        IF question.options # {} /\ RepeatedOptions # {}
        THEN /\ Len(result.warnings) = 1
             /\ result.warnings[1].field = "options"
             /\ result.warnings[1].rule = "duplicates"
        ELSE result.warnings = <<>>

\* two values repeat and there is one warning
C21_Witness ==
    /\ Called
    /\ Cardinality(RepeatedOptions) = 2
    /\ Len(result.warnings) = 1

\* C22: a missing explanation (undefined or empty) gives one 'required' error
\* on field 'explanation' iff requireExplanation is true; a supplied
\* explanation shorter than explanationMinLength or longer than
\* explanationMaxLength gives one length error whether or not it is required;
\* no other case gives an error on that field.
C22_Explanation ==
    Called =>
        LET opts == MergeOptions(optionsArg)
            defect == DefectOf(question.explanation, opts.explanationMinLength,
                               opts.explanationMaxLength)
        IN ExactlyOneOrNone("explanation",
               IF defect = "required" /\ ~opts.requireExplanation THEN "none"
               ELSE defect)

\* an explanation that is not required and is longer than the bound
C22_Witness ==
    /\ Called
    /\ ~MergeOptions(optionsArg).requireExplanation
    /\ question.explanation = Str(Rep(12))
    /\ optionsArg.explanationMaxLength = {11}
    /\ \E p \in ErrorsOn("explanation") : result.errors[p].rule = "maxLength"

\* the field is absent and required: the one case in which the category and
\* difficulty steps report
RequiredDefect(v, required) ==
    IF required /\ v \in {Undefined, Null, Str(<<>>)} THEN "required" ELSE "none"

\* some custom rule of the options names the field
NamedByCustomRule(field) ==
    \E i \in 1..Len(CustomRulesOf(optionsArg)) :
        CustomRulesOf(optionsArg)[i].field = field

\* C23 as stated: there is an error on field 'category' iff requireCategory is
\* true and category is absent, an error on field 'difficulty' iff
\* requireDifficulty is true and difficulty is absent, and both are of kind
\* required, whatever the custom rules are.
C23_RequiredOnlyAnyRules ==
    Called =>
        /\ ExactlyOneOrNone("category",
               RequiredDefect(question.category,
                              MergeOptions(optionsArg).requireCategory))
        /\ ExactlyOneOrNone("difficulty",
               RequiredDefect(question.difficulty,
                              MergeOptions(optionsArg).requireDifficulty))

\* C23: when no custom rule names the field, there is an error on field
\* 'category' iff requireCategory is true and category is absent, and an error
\* on field 'difficulty' iff requireDifficulty is true and difficulty is
\* absent; it is of kind required, and no length bound is applied.
C23_RequiredOnly ==
    Called =>
        /\ ~NamedByCustomRule("category") =>
               ExactlyOneOrNone("category",
                   RequiredDefect(question.category,
                                  MergeOptions(optionsArg).requireCategory))
        /\ ~NamedByCustomRule("difficulty") =>
               ExactlyOneOrNone("difficulty",
                   RequiredDefect(question.difficulty,
                                  MergeOptions(optionsArg).requireDifficulty))

\* both fields required: an empty category is reported, a one-character
\* category and a numeric difficulty are not
C23_Witness ==
    /\ Called
    /\ optionsArg.customRules = {}
    /\ MergeOptions(optionsArg).requireCategory
    /\ MergeOptions(optionsArg).requireDifficulty
    /\ question.difficulty = Num(3)
    /\ ErrorsOn("difficulty") = {}
    /\ \/ question.category = Str(<<>>) /\ Cardinality(ErrorsOn("category")) = 1
       \/ question.category = A /\ ErrorsOn("category") = {}

\* what validateField returns for the i-th custom rule and the field it names
C24_RuleError(i) ==
    LET r == CustomRulesOf(optionsArg)[i]
    IN validateField(FieldOf(question, r.field), r)

\* the custom rules, among the first i, that return an error
C24_Failing(i) == {j \in 1..i : C24_RuleError(j) # <<>>}

\* the errors of the same call without custom rules
C24_BuiltIn ==
    validateQuizQuestion(question, [optionsArg EXCEPT !.customRules = {}]).errors

\* C24: every custom rule is evaluated with validateField against the
\* question field it names (undefined when the question has no such field);
\* each rule appends at most one error; the errors of the custom rules come
\* after all built-in errors, in the order of the rules.
C24_CustomRules ==
    Called =>
        LET n == Len(CustomRulesOf(optionsArg))
            base == Len(C24_BuiltIn)
        IN /\ Len(result.errors) = base + Cardinality(C24_Failing(n))
           /\ SubSeq(result.errors, 1, base) = C24_BuiltIn
           /\ \A i \in C24_Failing(n) :
                  /\ Len(C24_RuleError(i)) = 1
                  /\ result.errors[base + Cardinality(C24_Failing(i))]
                         = C24_RuleError(i)[1]

\* three custom rules fail, one of them on a field the question does not
\* have, after at least one built-in error
C24_Witness ==
    /\ Called
    /\ Len(CustomRulesOf(optionsArg)) = 3
    /\ Cardinality(C24_Failing(3)) = 3
    /\ Len(C24_BuiltIn) >= 1
    /\ result.errors[Len(result.errors) - 1].field = "timeLimit"
    /\ result.errors[Len(result.errors) - 1].rule = "required"

----------------------------------------------------------------------------
(* Claims about the options and the score (SpecQuiz) *)

\* the defaults as the claim states them
C25_StatedDefaults ==
    [questionMinLength |-> 5, questionMaxLength |-> 500,
     optionMinLength |-> 1, optionMaxLength |-> 200,
     explanationMinLength |-> 10, explanationMaxLength |-> 1000,
     minOptions |-> 2, maxOptions |-> 10,
     requireExplanation |-> FALSE, requireCategory |-> FALSE,
     requireDifficulty |-> FALSE]

\* the options with every option that was not supplied passed with its
\* stated default
C25_AllSupplied(o) ==
    [k \in DOMAIN o |->
        IF k \in DOMAIN C25_StatedDefaults /\ o[k] = {}
        THEN {C25_StatedDefaults[k]} ELSE o[k]]

\* C25: a call with some options not supplied returns what the call returns
\* when each of them is passed with its default, whichever other options are
\* supplied.
C25_DefaultsMerged ==
    Called => result = validateQuizQuestion(question, C25_AllSupplied(optionsArg))

\* maxOptions is supplied and minOptions is not: a list of one option is
\* still measured against the default minOptions of 2
C25_Witness ==
    /\ Called
    /\ optionsArg.maxOptions = {1}
    /\ optionsArg.minOptions = {}
    /\ question.options = {<<A>>}
    /\ \E p \in ErrorsOn("options") : result.errors[p].rule = "minOptions"

\* C29: the number of errors never exceeds totalChecks, so the ratio
\* (totalChecks - failedChecks) / totalChecks is never negative and the score
\* is its rounding, unchanged by the max(0, ...) clamp; totalChecks is at
\* least 4.
C29_ErrorsWithinChecks ==
    Called =>
        /\ totalChecks >= 4
        /\ Len(result.errors) <= totalChecks
        /\ result.score = MathRound((totalChecks - Len(result.errors)) * 100, totalChecks)

\* every check fails: the text, both option counts (minOptions > maxOptions),
\* each option, and an explanation that is too short and not required
C29_Witness ==
    /\ Called
    /\ Len(result.errors) = totalChecks
    /\ MergeOptions(optionsArg).minOptions > MergeOptions(optionsArg).maxOptions
    /\ ~MergeOptions(optionsArg).requireExplanation
    /\ ErrorsOn("explanation") # {}
    /\ result.score = 0

----------------------------------------------------------------------------
(* Claims about the fields that are not validated (SpecQuizFields) *)

\* the question without its id and its correctAnswer
C30_Anonymous(q) == [q EXCEPT !.id = Undefined, !.correctAnswer = Undefined]

\* C30: with no custom rule naming id or correctAnswer, the result does not
\* depend on these two fields: a question gets the valid, errors, warnings and
\* score of the question that differs from it only in having neither.
C30_IgnoresIdAndAnswer ==
    (Called /\ ~NamedByCustomRule("id") /\ ~NamedByCustomRule("correctAnswer")) =>
        result = validateQuizQuestion(C30_Anonymous(question), optionsArg)

\* a question with an id and a correctAnswer but no options, found valid
C30_Witness ==
    /\ Called
    /\ question.id = Num(3)
    /\ question.correctAnswer = A
    /\ question.options = {}
    /\ result.valid

----------------------------------------------------------------------------
(* Claims about convertFromQuizlet (SpecQuizlet) *)

ImportCalled == importCalls > 0

\* the positions just before a line of content: 0 and every line feed
C28_LineStarts == {0} \cup {i \in 1..Len(content) : content[i] = "\n"}

\* the position just after the line that starts after position p
C28_LineEnd(p) ==
    Least({i \in (p + 1)..(Len(content) + 1) :
              i = Len(content) + 1 \/ content[i] = "\n"})

\* the positions of the characters of that line that are not white space
C28_Solid(p) == {i \in (p + 1)..(C28_LineEnd(p) - 1) : content[i] # " "}

\* the starts of the non-blank lines
C28_NonBlank == {p \in C28_LineStarts : C28_Solid(p) # {}}

\* the start of the m-th non-blank line
C28_Nth(m) ==
    CHOOSE p \in C28_NonBlank : Cardinality({r \in C28_NonBlank : r < p}) = m - 1

\* the m-th non-blank line, trimmed
C28_TrimmedLine(m) ==
    SubSeq(content, Least(C28_Solid(C28_Nth(m))), Greatest(C28_Solid(C28_Nth(m))))

\* C28: over k non-blank lines convertFromQuizlet returns floor(k/2)
\* questions in input order, the i-th (from 0) built from the trimmed
\* (2i+1)-th non-blank line as question and the trimmed (2i+2)-th as
\* explanation; a trailing unpaired line is dropped.
C28_PairsOfLines ==
    ImportCalled =>
        /\ Len(imported) = Cardinality(C28_NonBlank) \div 2
        /\ \A i \in 1..Len(imported) :
               imported[i] = [question |-> C28_TrimmedLine(2 * i - 1),
                              explanation |-> C28_TrimmedLine(2 * i)]

\* three non-blank lines and a blank one: one question, whose explanation
\* was trimmed on the right, and the last line dropped
C28_Witness ==
    /\ ImportCalled
    /\ Cardinality(C28_NonBlank) = 3
    /\ Cardinality(C28_LineStarts) = 4
    /\ Len(imported) = 1
    /\ Greatest(C28_Solid(C28_Nth(2))) + 1 < C28_LineEnd(C28_Nth(2))

----------------------------------------------------------------------------
(* Claims about the commands (SpecCli) *)

\* the process was started with the command and has ended
Exited(cmd) == command = cmd /\ exitStatus # NotExited

\* every question of the file is valid under the options
AllValid(file, o) ==
    \A i \in 1..Len(file.questions) : validateQuizQuestion(file.questions[i], o).valid

\* C26 as stated: the validate command ends with status 0 when every
\* question of the loaded file is valid, with status 1 when at least one
\* question is invalid, and with status 1 when the file cannot be read or is
\* not valid JSON.
C26_ExitStatusAsStated ==
    Exited("validate") =>
        LET file == files[1]
            o == StrictOptions(cliOptions.strict)
        IN /\ (Loads(file) /\ AllValid(file, o)) => exitStatus = 0
           /\ (Loads(file) /\ ~AllValid(file, o)) => exitStatus = 1
           /\ file.kind \in {"unreadable", "garbage"} => exitStatus = 1

\* C26: the validate command ends with status 0 when every question of the
\* loaded file is valid and the report is printed or written; with status 1
\* when at least one question is invalid, when the file cannot be read, is
\* not valid JSON or is not a JSON array, and when the report cannot be
\* written to the --output path.
C26_ExitStatus ==
    Exited("validate") =>
        LET file == files[1]
            o == StrictOptions(cliOptions.strict)
        IN exitStatus =
               IF Loads(file) /\ AllValid(file, o) /\ WritesReport(cliOptions)
               THEN 0 ELSE 1

\* two questions that are valid with --strict, the report written to a
\* file: status 0
C26_Witness ==
    /\ Exited("validate")
    /\ Len(files[1].questions) = 2
    /\ cliOptions.strict = {TRUE}
    /\ cliOptions.output = {TRUE}
    /\ exitStatus = 0

\* C27: the batch command ends with status 0 only when all quizzes passed:
\* if a question of a scanned file fails validation, the status is not 0.
C27_BatchExitStatus ==
    (Exited("batch") /\ exitStatus = 0) =>
        \A i \in 1..Len(files) : Loads(files[i]) /\ AllValid(files[i], NoOptions)

====
